---- MODULE Spec2Model ----
(***************************************************************************)
(* Model of the task pipeline of tds_proj1_backend: the intake endpoint    *)
(* (main.py receive_task), the background pipeline                         *)
(* (main.py process_task_background) with its round-2 revision branch and  *)
(* its build branch, and the helpers of utils.py and aipipe_client.py.     *)
(*                                                                         *)
(* Text (documents, prompts) is a sequence of tokens; a file tree is a     *)
(* function from the names of the files present to their content; a commit *)
(* is a record in a content store and its identifier is its position.      *)
(***************************************************************************)
EXTENDS Integers, Sequences, FiniteSets, TLC

\* ---------------------------------------------------------------- bounds
\* Worker slots of the model (requests that can ever be in flight).
NumProcs == 2
\* Largest round number a request carries.
MaxRound == 3
\* Operations of the publish harness (SpecPublish).
MaxOps == 3

\* ------------------------------------------------------ program constants
\* utils.py: for attempt in range(5)
MaxAttempts == 5
\* utils.py: asyncio.sleep(2**attempt)
BackoffBase == 2
\* main.py: if round_number == 2
RevisionRound == 2

Procs == 1..NumProcs
Rounds == 1..MaxRound

STUDENT_SECRET == "s3cret"
STUDENT_EMAIL == "student@example.com"
GITHUB_USERNAME == "user"
TaskIds == {"app"}
Nonces == {"n1", "n2"}
Secrets == {STUDENT_SECRET, "wrong"}

\* ------------------------------------------------------------- documents
DOCTYPE == "<!DOCTYPE html>"
DocA == <<DOCTYPE, "<html>A</html>">>
DocB == <<DOCTYPE, "<html>B</html>">>
\* A document wrapped in a markdown code fence.
FENCE == "[code fence]"
DocFenced == <<FENCE, DOCTYPE, "<html>A</html>", FENCE>>
\* What the generation provider may put in choices[0].message.content.
LLMDocs == {DocA, DocB, DocFenced}

NoSha == 0
\* A Python local that no assignment has bound yet.
Unbound == <<"<unbound local>">>
NoTask == [round |-> 0]
NoPayload == [round |-> 0]
\* No directory: before the with block is entered and after it is left.
NoDir == [exists |-> FALSE, files |-> [n \in {} |-> <<>>], git |-> FALSE,
          head |-> 0, origin |-> FALSE]

EmptyTree == [n \in {} |-> <<>>]

WriteFile(files, name, content) ==
    [n \in (DOMAIN files) \cup {name} |-> IF n = name THEN content ELSE files[n]]

RECURSIVE Pow(_, _)
Pow(b, e) == IF e = 0 THEN 1 ELSE b * Pow(b, e - 1)

\* s occurs in t as a contiguous run of tokens.
IsInfix(s, t) ==
    \E i \in 0..(Len(t) - Len(s)) :
        \A j \in 1..Len(s) : t[i + j] = s[j]

StartsWith(t, tok) == Len(t) >= 1 /\ t[1] = tok

\* chr(10).join('- ' + c for c in checks)
Bullets(checks) == [i \in 1..Len(checks) |-> <<"- ", checks[i]>>]

RECURSIVE Flatten(_)
Flatten(ss) == IF ss = <<>> THEN <<>> ELSE Head(ss) \o Flatten(Tail(ss))

\* ------------------------------------------------- base64 file transport
LineBreak == [b64 |-> "\n"]
\* The hosting provider's contents API: base64 text wrapped into lines.
B64Encode(doc) ==
    Flatten([i \in 1..Len(doc) |-> <<[b64 |-> doc[i]], LineBreak>>])
\* "".join(content_base64.splitlines())
StripLines(enc) == SelectSeq(enc, LAMBDA x : x # LineBreak)
\* base64.b64decode(...).decode("utf-8")
B64Decode(enc) == [i \in 1..Len(enc) |-> enc[i].b64]

\* ------------------------------------------------------------ utils.py
RepoUrl(username, repo_name) == <<"https://github.com", username, repo_name>>
RepoOf(url) == url[3]
PagesUrl(username, repo_name) == <<"https://", username, ".github.io", repo_name>>

\* tempfile.TemporaryDirectory(): a new, empty directory.
FreshDir == [exists |-> TRUE, files |-> EmptyTree, git |-> FALSE,
             head |-> NoSha, origin |-> FALSE]

\* The tree of the commit HEAD names (nothing before the first commit).
HeadTree(ws, store) == IF ws.head = NoSha THEN EmptyTree ELSE store[ws.head].tree

\* git clone <url> tempdir (check=True). r is the remote repository, ok the
\* transport's outcome. An empty remote clones to an empty tree without HEAD.
CloneRepo(r, store, ok) ==
    IF r.exists /\ ok
    THEN [raised |-> FALSE,
          ws |-> [exists |-> TRUE,
                  files |-> IF r.main = NoSha THEN EmptyTree ELSE store[r.main].tree,
                  git |-> TRUE, head |-> r.main, origin |-> TRUE]]
    ELSE [raised |-> TRUE, ws |-> FreshDir]

\* The hosting provider's answer to GET /repos/{user}/{repo}/contents/{file}.
GithubContents(r, store, filename, ok) ==
    IF ok /\ r.exists /\ r.main # NoSha /\ filename \in DOMAIN store[r.main].tree
    THEN [status |-> 200, content |-> B64Encode(store[r.main].tree[filename])]
    ELSE [status |-> IF ok THEN 404 ELSE 500, content |-> <<>>]

FetchGithubFile(reply) ==
    IF reply.status = 200
    THEN [raised |-> FALSE, value |-> B64Decode(StripLines(reply.content))]
    ELSE [raised |-> TRUE, value |-> <<>>]

\* Mutant: every 2xx status is taken for success.
NotifySuccess2xx(status) == status \in 200..299

\* response.status_code == 200 in notify_evaluator.
NotifySuccess(status) == status = 200

\* The sleep after failed attempt number `attempt` (0-based).
Backoff(attempt) == Pow(BackoffBase, attempt)

\* Mutant: the loop runs one pass too many.
MoreAttemptsOffByOne(attempt) == attempt <= MaxAttempts

\* The loop test of for attempt in range(5).
MoreAttempts(attempt) == attempt < MaxAttempts

\* Mutant: "already enabled" (409) is taken for a failure.
EnableGithubPagesNo409(status) == status \in {201, 204}

EnableGithubPages(status) == status \in {201, 204, 409}

\* Mutant: "already exists" (422) is raised like any other failure.
CreateGithubRepoStrict(status, repo_name) ==
    IF status = 201
    THEN [raised |-> FALSE, url |-> RepoUrl(GITHUB_USERNAME, repo_name)]
    ELSE [raised |-> TRUE, url |-> <<>>]

CreateGithubRepo(status, repo_name) ==
    IF status \in {201, 422}
    THEN [raised |-> FALSE, url |-> RepoUrl(GITHUB_USERNAME, repo_name)]
    ELSE [raised |-> TRUE, url |-> <<>>]

\* Mutant: the commit is made whether or not anything is staged.
ShouldCommitAlways(ws, store) == TRUE

\* git status --porcelain after git add . : the staged tree differs from HEAD's.
ShouldCommit(ws, store) == ws.files # HeadTree(ws, store)

\* Commit a is h or one of h's ancestors in store.
RECURSIVE IsAncestor(_, _, _)
IsAncestor(a, h, store) ==
    IF h = NoSha THEN FALSE
    ELSE IF h = a THEN TRUE
    ELSE IsAncestor(a, store[h].parent, store)

\* Mutant: git push without --force: the remote refuses a commit that does
\* not descend from the one its main branch holds.
PushToGithubNoForce(ws, r, store, ok) ==
    LET w1 == IF ws.git THEN ws
              ELSE [ws EXCEPT !.git = TRUE, !.head = NoSha, !.origin = FALSE]
        dirty == ShouldCommit(w1, store)
        store1 == IF dirty
                  THEN Append(store, [tree |-> w1.files, parent |-> w1.head])
                  ELSE store
        w2 == [w1 EXCEPT !.head = IF dirty THEN Len(store1) ELSE w1.head,
                         !.origin = TRUE]
        pushed == /\ ok
                  /\ r.exists
                  /\ w2.head # NoSha
                  /\ (r.main = NoSha \/ IsAncestor(r.main, w2.head, store1))
    IN  [ws |-> w2, store |-> store1,
         remote |-> IF pushed THEN [r EXCEPT !.main = w2.head] ELSE r,
         raised |-> ~pushed,
         sha |-> IF pushed THEN w2.head ELSE NoSha]

\* push_to_github(repo_url, gh_token, folder): ws is the folder, r the remote
\* repository repo_url names, ok the outcome of the network push.
PushToGithub(ws, r, store, ok) ==
    LET w1 == IF ws.git THEN ws
              ELSE [ws EXCEPT !.git = TRUE, !.head = NoSha, !.origin = FALSE]
        dirty == ShouldCommit(w1, store)
        store1 == IF dirty
                  THEN Append(store, [tree |-> w1.files, parent |-> w1.head])
                  ELSE store
        w2 == [w1 EXCEPT !.head = IF dirty THEN Len(store1) ELSE w1.head,
                         !.origin = TRUE]
        \* git push -u origin main --force fails without a commit on main,
        \* without the remote repository, or when the transport fails.
        pushed == ok /\ r.exists /\ w2.head # NoSha
    IN  [ws |-> w2, store |-> store1,
         remote |-> IF pushed THEN [r EXCEPT !.main = w2.head] ELSE r,
         raised |-> ~pushed,
         sha |-> IF pushed THEN w2.head ELSE NoSha]

GenerateReadme(brief, checks, task_id) ==
    <<"# ", task_id, "## Overview", brief, "## Checks Implemented">>
        \o Flatten(Bullets(checks)) \o <<"## Usage", "## License", "MIT">>

GenerateMitLicense(author) == <<"MIT License", "Copyright (c)", author>>

\* ------------------------------------------------------ aipipe_client.py
\* Replies of the generation provider: status 0 is a transport error, choices
\* is the response envelope's list (empty: a malformed envelope).
GenReplies ==
    {[status |-> 0, choices |-> <<>>], [status |-> 500, choices |-> <<>>],
     [status |-> 200, choices |-> <<>>]}
    \cup {[status |-> 200, choices |-> <<[message |-> [content |-> d]]>>] : d \in LLMDocs}

\* client.post raises on a transport error, raise_for_status on a non-2xx.
CallAipipe(reply) ==
    IF reply.status \in 200..299
    THEN [raised |-> FALSE, json |-> [choices |-> reply.choices]]
    ELSE [raised |-> TRUE, json |-> [choices |-> <<>>]]

\* response["choices"][0]["message"]["content"]
ExtractContent(json) ==
    IF Len(json.choices) >= 1
    THEN [raised |-> FALSE, value |-> json.choices[1].message.content]
    ELSE [raised |-> TRUE, value |-> <<>>]

\* -------------------------------------------------------------- main.py
RevisionPrompt(existing_code, new_brief, checks) ==
    <<"You are updating a previously deployed static website.",
      "----- OLD CODE START -----">>
    \o existing_code
    \o <<"----- OLD CODE END -----", "Your new instructions are:", new_brief,
         "You must update the code to implement these new requirements">>
    \o Flatten(Bullets(checks))
    \o <<"Return ONLY the complete updated HTML file, starting with <!DOCTYPE html>.">>

BuildPrompt(brief, checks, attachments) ==
    <<"You are an expert frontend developer.", brief,
      "The following checks will be performed by the evaluator:">>
    \o Flatten(Bullets(checks))
    \o <<"You may be given file attachments, refer to them by the names below:">>
    \o [i \in 1..Len(attachments) |-> attachments[i].name]
    \o <<"Start your output directly with <!DOCTYPE html> (no code fences).">>

\* if round_number == 2: ... else: ...
IsRevision(round_number) == round_number = RevisionRound

\* Mutant: the payload carries the configured e-mail and no nonce of the task.
BuildPayloadOwnFields(task_data, repo_name, round_number, repo_url, commit_sha, pages_url) ==
    [email |-> STUDENT_EMAIL, task |-> repo_name, round |-> round_number,
     nonce |-> "", repo_url |-> repo_url,
     commit_sha |-> commit_sha, pages_url |-> pages_url]

BuildPayload(task_data, repo_name, round_number, repo_url, commit_sha, pages_url) ==
    [email |-> task_data.email, task |-> repo_name, round |-> round_number,
     nonce |-> task_data.nonce, repo_url |-> repo_url,
     commit_sha |-> commit_sha, pages_url |-> pages_url]

\* ------------------------------------------------------------------ state
VARIABLES
    quota,          \* requests the clients have still to send
    request,        \* body of the request the endpoint received
    started,        \* times process_task_background was invoked for the slot
    task,           \* task_data of each worker slot (request.dict())
    http,           \* status the intake endpoint answered with (0: none yet)
    pc,             \* position of each slot's coroutine
    flow,           \* branch process_task_background took
    existing_code,  \* local existing_code (revision branch)
    prompt,         \* prompt sent to the generation provider
    html,           \* revised_html / llm_message
    tempdir,        \* the TemporaryDirectory of the with block
    repo_url,       \* local repo_url (build branch)
    commit_sha,     \* local commit_sha
    enabled,        \* local enabled
    pages_url,      \* local pages_url
    payload,        \* local payload
    attempt,        \* loop variable of notify_evaluator
    success,        \* value notify_evaluator returned
    outcome,        \* how process_task_background ended
    calls,          \* helper calls made by the pipeline, in order
    delays,         \* the sleeps notify_evaluator performed, in order
    posts,          \* the evaluator's log: every POST's payload and status
    remote,         \* the hosting provider's repositories, by name
    commits,        \* the commit store: commit identifier n is commits[n]
    oplog           \* publish harness: operations applied, in order

vars == <<quota, request, started, task, http, pc, flow, existing_code, prompt, html, tempdir,
          repo_url, commit_sha, enabled, pages_url, payload, attempt, success,
          outcome, calls, delays, posts, remote, commits, oplog>>

\* Locals of the pipeline no action but their own touches.
genVars == <<existing_code, prompt, html>>
pubVars == <<repo_url, commit_sha, enabled, pages_url>>
notifyVars == <<payload, attempt, success, delays, posts>>
intakeVars == <<quota, request, task, http>>
startVars == <<flow, started>>

\* ------------------------------------------------------------ environment
Requests ==
    [email : {"requester@example.com"}, secret : Secrets, task : TaskIds,
     round : Rounds, nonce : Nonces, brief : {"Build a counter app"},
     checks : {<<"counter increments on click">>},
     evaluation_url : {"https://evaluator/notify"},
     attachments : {<<[name |-> "data.csv", url |-> "data:..."]>>}]

\* The tree a completed build publishes.
BuiltTree(doc, t) ==
    [n \in {"index.html", "README.md", "LICENSE"} |->
        IF n = "index.html" THEN doc
        ELSE IF n = "README.md" THEN GenerateReadme(t.brief, t.checks, t.task)
        ELSE GenerateMitLicense(STUDENT_EMAIL)]

AbsentRepo == [exists |-> FALSE, main |-> NoSha, pages |-> FALSE]
EmptyRepo == [exists |-> TRUE, main |-> NoSha, pages |-> FALSE]
PublishedRepo == [exists |-> TRUE, main |-> 1, pages |-> TRUE]

\* What earlier runs of the pipeline can have left at the hosting provider:
\* nothing, a repository whose first push failed, or a published build.
InitialRemotes ==
    {[repo |-> AbsentRepo, store |-> <<>>],
     [repo |-> EmptyRepo, store |-> <<>>],
     [repo |-> PublishedRepo,
      store |-> <<[tree |-> BuiltTree(DocA, CHOOSE t \in Requests : TRUE),
                   parent |-> NoSha]>>]}

\* Statuses the hosting provider can answer a create-repository call with.
CreateStatuses(r) == (IF r.exists THEN {422} ELSE {201}) \cup {401}
\* Statuses it can answer an enable-pages call with (0: transport error).
PagesStatuses(r) == (IF r.pages THEN {409} ELSE {201}) \cup {204, 403, 0}
\* Outcomes of one POST to the evaluator (0: transport error or timeout).
NotifyOutcomes == {200, 204, 500, 0}

\* Positions at which a coroutine is suspended in an await (or not running):
\* everything between two of them runs without yielding the event loop.
YieldPoints == {"off", "idle", "rejected", "queued", "R_generate", "B_generate",
                "notify", "done"}
CanRun(p) == \A q \in Procs \ {p} : pc[q] \in YieldPoints

InitWith(n, r0) ==
    /\ quota = n
    /\ request = [p \in Procs |-> NoTask]
    /\ started = [p \in Procs |-> 0]
    /\ task = [p \in Procs |-> NoTask]
    /\ http = [p \in Procs |-> 0]
    /\ pc = [p \in Procs |-> "idle"]
    /\ flow = [p \in Procs |-> "none"]
    /\ existing_code = [p \in Procs |-> Unbound]
    /\ prompt = [p \in Procs |-> Unbound]
    /\ html = [p \in Procs |-> Unbound]
    /\ tempdir = [p \in Procs |-> NoDir]
    /\ repo_url = [p \in Procs |-> Unbound]
    /\ commit_sha = [p \in Procs |-> NoSha]
    /\ enabled = [p \in Procs |-> FALSE]
    /\ pages_url = [p \in Procs |-> Unbound]
    /\ payload = [p \in Procs |-> NoPayload]
    /\ attempt = [p \in Procs |-> 0]
    /\ success = [p \in Procs |-> "unset"]
    /\ outcome = [p \in Procs |-> "running"]
    /\ calls = [p \in Procs |-> <<>>]
    /\ delays = [p \in Procs |-> <<>>]
    /\ posts = [p \in Procs |-> <<>>]
    /\ remote = [t \in TaskIds |-> r0.repo]
    /\ commits = r0.store
    /\ oplog = <<>>

\* One request is sent to the service.
Init == \E r0 \in InitialRemotes : InitWith(1, r0)

\* ---------------------------------------------------------------- intake
\* Mutant: the secret is not compared.
SecretMatchesAlways(secret) == TRUE

\* main.py 64: request.secret != STUDENT_SECRET
SecretMatches(secret) == secret = STUDENT_SECRET

\* Mutant: the handler awaits the pipeline itself, so that no response has
\* been returned when the pipeline runs.
ReceiveTaskInline(p) ==
    /\ pc[p] = "idle"
    /\ quota > 0
    /\ \A q \in Procs : q < p => pc[q] # "idle"
    /\ CanRun(p)
    /\ \E body \in Requests :
        /\ request' = [request EXCEPT ![p] = body]
        /\ IF ~SecretMatches(body.secret)
           THEN /\ http' = [http EXCEPT ![p] = 401]
                /\ pc' = [pc EXCEPT ![p] = "rejected"]
                /\ task' = task
           ELSE /\ task' = [task EXCEPT ![p] = body]
                /\ http' = http
                /\ pc' = [pc EXCEPT ![p] = "queued"]
    /\ quota' = quota - 1
    /\ UNCHANGED <<startVars, genVars, tempdir, pubVars, notifyVars, outcome, calls,
                   remote, commits, oplog>>

\* main.py receive_task: 401 on a wrong secret, else enqueue and answer 200.
ReceiveTask(p) ==
    /\ pc[p] = "idle"
    /\ quota > 0
    /\ \A q \in Procs : q < p => pc[q] # "idle"
    /\ CanRun(p)
    /\ \E body \in Requests :
        /\ request' = [request EXCEPT ![p] = body]
        /\ IF ~SecretMatches(body.secret)
           THEN /\ http' = [http EXCEPT ![p] = 401]
                /\ pc' = [pc EXCEPT ![p] = "rejected"]
                /\ task' = task
           ELSE /\ task' = [task EXCEPT ![p] = body]
                /\ http' = [http EXCEPT ![p] = 200]
                /\ pc' = [pc EXCEPT ![p] = "queued"]
    /\ quota' = quota - 1
    /\ UNCHANGED <<startVars, genVars, tempdir, pubVars, notifyVars, outcome, calls,
                   remote, commits, oplog>>

\* process_task_background entry: the branch on round_number.
Start(p) ==
    /\ pc[p] = "queued"
    /\ CanRun(p)
    /\ IF IsRevision(task[p].round)
       THEN /\ flow' = [flow EXCEPT ![p] = "revision"]
            /\ pc' = [pc EXCEPT ![p] = "R_fetch"]
       ELSE /\ flow' = [flow EXCEPT ![p] = "build"]
            /\ pc' = [pc EXCEPT ![p] = "B_generate"]
    /\ started' = [started EXCEPT ![p] = @ + 1]
    /\ UNCHANGED <<intakeVars, genVars, tempdir, pubVars, notifyVars, outcome,
                   calls, remote, commits, oplog>>

\* Mutant: the directory is made with mkdtemp and nobody removes it.
EndsLeavingDir(p, how) ==
    /\ pc' = [pc EXCEPT ![p] = "done"]
    /\ outcome' = [outcome EXCEPT ![p] = how]
    /\ tempdir' = tempdir

\* The coroutine ends: `how` tells by which path; leaving the with block
\* removes the temporary directory.
Ends(p, how) ==
    /\ pc' = [pc EXCEPT ![p] = "done"]
    /\ outcome' = [outcome EXCEPT ![p] = how]
    /\ tempdir' = [tempdir EXCEPT ![p] = NoDir]

\* The call of helper `name` is logged with the status the remote side
\* answered (0: none, or a transport error) and whether it returned (ok) or
\* raised.
Called(p, name, status, ok) ==
    calls' = [calls EXCEPT ![p] = Append(@, [fn |-> name, status |-> status, ok |-> ok])]

\* ------------------------------------------------------- revision branch
\* main.py 91-98: existing_code = await fetch_github_file(...)
R_Fetch(p) ==
    /\ pc[p] = "R_fetch"
    /\ CanRun(p)
    /\ \E ok \in BOOLEAN :
        LET reply == GithubContents(remote[task[p].task], commits, "index.html", ok)
            res == FetchGithubFile(reply)
        IN  /\ Called(p, "fetch_github_file", reply.status, ~res.raised)
            /\ IF res.raised
               THEN /\ Ends(p, "caught_revision")
                    /\ UNCHANGED existing_code
               ELSE /\ existing_code' = [existing_code EXCEPT ![p] = res.value]
                    /\ pc' = [pc EXCEPT ![p] = "R_generate"]
                    /\ UNCHANGED <<outcome, tempdir>>
    /\ UNCHANGED <<intakeVars, startVars, prompt, html, pubVars, notifyVars, remote,
                   commits, oplog>>

\* main.py 101-123: the revision prompt, call_aipipe, the content of choice 0.
R_Generate(p) ==
    /\ pc[p] = "R_generate"
    /\ CanRun(p)
    /\ prompt' = [prompt EXCEPT ![p] =
                    RevisionPrompt(existing_code[p], task[p].brief, task[p].checks)]
    /\ \E reply \in GenReplies :
        LET res == CallAipipe(reply)
            ext == ExtractContent(res.json)
        IN  /\ Called(p, "call_aipipe", reply.status, ~res.raised)
            /\ IF res.raised \/ ext.raised
               THEN /\ Ends(p, "caught_revision")
                    /\ UNCHANGED html
               ELSE /\ html' = [html EXCEPT ![p] = ext.value]
                    /\ pc' = [pc EXCEPT ![p] = "R_clone"]
                    /\ UNCHANGED <<outcome, tempdir>>
    /\ UNCHANGED <<intakeVars, startVars, existing_code, pubVars, notifyVars, remote,
                   commits, oplog>>

\* Mutant: only index.html is written into the new directory; the repository
\* is not cloned into it.
R_CloneFresh(p) ==
    /\ pc[p] = "R_clone"
    /\ CanRun(p)
    /\ Called(p, "clone_repo", 0, TRUE)
    /\ tempdir' = [tempdir EXCEPT ![p] =
            [FreshDir EXCEPT !.files = WriteFile(EmptyTree, "index.html", html[p])]]
    /\ pc' = [pc EXCEPT ![p] = "R_push"]
    /\ UNCHANGED <<intakeVars, startVars, genVars, pubVars, notifyVars, outcome,
                   remote, commits, oplog>>

\* main.py 127-133: the temporary directory, clone_repo, index.html overwritten.
R_Clone(p) ==
    /\ pc[p] = "R_clone"
    /\ CanRun(p)
    /\ \E ok \in BOOLEAN :
        LET res == CloneRepo(remote[task[p].task], commits, ok)
        IN  /\ Called(p, "clone_repo", 0, ~res.raised)
            /\ IF res.raised
               THEN Ends(p, "caught_revision")
               ELSE /\ tempdir' = [tempdir EXCEPT ![p] =
                           [res.ws EXCEPT !.files =
                               WriteFile(res.ws.files, "index.html", html[p])]]
                    /\ pc' = [pc EXCEPT ![p] = "R_push"]
                    /\ UNCHANGED outcome
    /\ UNCHANGED <<intakeVars, startVars, genVars, pubVars, notifyVars, remote,
                   commits, oplog>>

\* main.py 136-139: commit_sha = push_to_github(...)
R_Push(p) ==
    /\ pc[p] = "R_push"
    /\ CanRun(p)
    /\ \E ok \in BOOLEAN :
        LET name == RepoOf(RepoUrl(GITHUB_USERNAME, task[p].task))
            res == PushToGithub(tempdir[p], remote[name], commits, ok)
        IN  /\ Called(p, "push_to_github", 0, ~res.raised)
            /\ IF res.raised
               THEN /\ Ends(p, "caught_revision")
                    /\ UNCHANGED <<commit_sha, remote, commits>>
               ELSE /\ commit_sha' = [commit_sha EXCEPT ![p] = res.sha]
                    /\ tempdir' = [tempdir EXCEPT ![p] = res.ws]
                    /\ remote' = [remote EXCEPT ![name] = res.remote]
                    /\ commits' = res.store
                    /\ pc' = [pc EXCEPT ![p] = "R_pages"]
                    /\ UNCHANGED outcome
    /\ UNCHANGED <<intakeVars, startVars, genVars, repo_url, enabled, pages_url,
                   notifyVars, oplog>>

\* main.py 142-147: enabled = enable_github_pages(...); pages_url is assigned
\* only when enabled.
R_Pages(p) ==
    /\ pc[p] = "R_pages"
    /\ CanRun(p)
    /\ \E status \in PagesStatuses(remote[task[p].task]) :
        /\ Called(p, "enable_github_pages", status, status # 0)
        /\ IF status = 0
           THEN /\ Ends(p, "caught_revision")
                /\ UNCHANGED <<enabled, pages_url, remote>>
           ELSE /\ enabled' = [enabled EXCEPT ![p] = EnableGithubPages(status)]
                /\ pages_url' = [pages_url EXCEPT ![p] =
                       IF EnableGithubPages(status)
                       THEN PagesUrl(GITHUB_USERNAME, task[p].task) ELSE @]
                /\ remote' = [remote EXCEPT ![task[p].task].pages = @ \/ status = 201]
                /\ pc' = [pc EXCEPT ![p] = "R_payload"]
                /\ UNCHANGED <<outcome, tempdir>>
    /\ UNCHANGED <<intakeVars, startVars, genVars, repo_url, commit_sha, notifyVars,
                   commits, oplog>>

\* main.py 150-163: the payload (reading pages_url raises UnboundLocalError
\* when it was never assigned), then the call of notify_evaluator.
R_Payload(p) ==
    /\ pc[p] = "R_payload"
    /\ CanRun(p)
    /\ IF pages_url[p] = Unbound
       THEN /\ Ends(p, "caught_revision")
            /\ UNCHANGED <<payload, calls>>
       ELSE /\ payload' = [payload EXCEPT ![p] =
                  BuildPayload(task[p], task[p].task, task[p].round,
                               RepoUrl(GITHUB_USERNAME, task[p].task),
                               commit_sha[p], pages_url[p])]
            /\ Called(p, "notify_evaluator", 0, TRUE)
            /\ pc' = [pc EXCEPT ![p] = "notify"]
            /\ UNCHANGED <<outcome, tempdir>>
    /\ UNCHANGED <<intakeVars, startVars, genVars, pubVars, attempt, success, delays,
                   posts, remote, commits, oplog>>

\* main.py 164-168: the result is printed and the with block is left.
R_Finish(p) ==
    /\ pc[p] = "R_finish"
    /\ CanRun(p)
    /\ Ends(p, "completed")
    /\ UNCHANGED <<intakeVars, startVars, genVars, pubVars, notifyVars, calls, remote,
                   commits, oplog>>

\* ------------------------------------------------------ notify_evaluator
\* Mutant: the loop has no exit but success: after the last failed pass the
\* notifier does not return.
NotifyAttemptNoExit(p) ==
    /\ pc[p] = "notify"
    /\ CanRun(p)
    /\ MoreAttempts(attempt[p])
    /\ \E status \in NotifyOutcomes :
        /\ posts' = [posts EXCEPT ![p] =
                        Append(@, [payload |-> payload[p], status |-> status])]
        /\ IF NotifySuccess(status)
           THEN /\ success' = [success EXCEPT ![p] = "True"]
                /\ pc' = [pc EXCEPT ![p] =
                            IF flow[p] = "revision" THEN "R_finish" ELSE "B_finish"]
                /\ UNCHANGED <<attempt, delays>>
           ELSE /\ delays' = [delays EXCEPT ![p] = Append(@, Backoff(attempt[p]))]
                /\ attempt' = [attempt EXCEPT ![p] = @ + 1]
                /\ UNCHANGED <<success, pc>>
    /\ UNCHANGED <<intakeVars, startVars, genVars, tempdir, pubVars, payload, outcome,
                   calls, remote, commits, oplog>>

\* utils.py 36-54: one pass of the loop body: the POST, then either return
\* True or the sleep; after the last pass, return False.
NotifyAttempt(p) ==
    /\ pc[p] = "notify"
    /\ CanRun(p)
    /\ MoreAttempts(attempt[p])
    /\ \E status \in NotifyOutcomes :
        /\ posts' = [posts EXCEPT ![p] =
                        Append(@, [payload |-> payload[p], status |-> status])]
        /\ IF NotifySuccess(status)
           THEN /\ success' = [success EXCEPT ![p] = "True"]
                /\ pc' = [pc EXCEPT ![p] =
                            IF flow[p] = "revision" THEN "R_finish" ELSE "B_finish"]
                /\ UNCHANGED <<attempt, delays>>
           ELSE /\ delays' = [delays EXCEPT ![p] = Append(@, Backoff(attempt[p]))]
                /\ attempt' = [attempt EXCEPT ![p] = @ + 1]
                /\ IF MoreAttempts(attempt[p] + 1)
                   THEN UNCHANGED <<success, pc>>
                   ELSE /\ success' = [success EXCEPT ![p] = "False"]
                        /\ pc' = [pc EXCEPT ![p] =
                              IF flow[p] = "revision" THEN "R_finish" ELSE "B_finish"]
    /\ UNCHANGED <<intakeVars, startVars, genVars, tempdir, pubVars, payload, outcome,
                   calls, remote, commits, oplog>>

\* ---------------------------------------------------------- build branch
\* main.py 177-215: the prompt and call_aipipe (outside every try), then the
\* content of choice 0 and the three files written into a new directory.
B_Generate(p) ==
    /\ pc[p] = "B_generate"
    /\ CanRun(p)
    /\ prompt' = [prompt EXCEPT ![p] =
                    BuildPrompt(task[p].brief, task[p].checks, task[p].attachments)]
    /\ \E reply \in GenReplies :
        LET res == CallAipipe(reply)
            ext == ExtractContent(res.json)
        IN  /\ Called(p, "call_aipipe", reply.status, ~res.raised)
            /\ IF res.raised
               THEN /\ Ends(p, "unhandled")
                    /\ UNCHANGED html
               ELSE IF ext.raised
               THEN /\ Ends(p, "caught_parse")
                    /\ UNCHANGED html
               ELSE /\ html' = [html EXCEPT ![p] = ext.value]
                    /\ tempdir' = [tempdir EXCEPT ![p] =
                           [FreshDir EXCEPT !.files =
                               WriteFile(
                                 WriteFile(
                                   WriteFile(EmptyTree, "index.html", ext.value),
                                   "README.md",
                                   GenerateReadme(task[p].brief, task[p].checks,
                                                  task[p].task)),
                                 "LICENSE", GenerateMitLicense(STUDENT_EMAIL))]]
                    /\ pc' = [pc EXCEPT ![p] = "B_create"]
                    /\ UNCHANGED outcome
    /\ UNCHANGED <<intakeVars, startVars, existing_code, pubVars, notifyVars, remote,
                   commits, oplog>>

\* Mutant: the build branch forms the repository URL itself, as the revision
\* branch does, and never calls create_github_repo.
B_CreateSkipped(p) ==
    /\ pc[p] = "B_create"
    /\ CanRun(p)
    /\ repo_url' = [repo_url EXCEPT ![p] = RepoUrl(GITHUB_USERNAME, task[p].task)]
    /\ pc' = [pc EXCEPT ![p] = "B_push"]
    /\ UNCHANGED <<intakeVars, startVars, genVars, tempdir, commit_sha, enabled,
                   pages_url, notifyVars, outcome, calls, remote, commits, oplog>>

\* main.py 218-223: repo_url = create_github_repo(...); a raise is caught by
\* the outer except.
B_Create(p) ==
    /\ pc[p] = "B_create"
    /\ CanRun(p)
    /\ \E status \in CreateStatuses(remote[task[p].task]) :
        LET res == CreateGithubRepo(status, task[p].task)
        IN  /\ Called(p, "create_github_repo", status, ~res.raised)
            /\ remote' = [remote EXCEPT ![task[p].task] =
                            IF status = 201 THEN EmptyRepo ELSE @]
            /\ IF res.raised
               THEN /\ Ends(p, "caught_parse")
                    /\ UNCHANGED repo_url
               ELSE /\ repo_url' = [repo_url EXCEPT ![p] = res.url]
                    /\ pc' = [pc EXCEPT ![p] = "B_push"]
                    /\ UNCHANGED <<outcome, tempdir>>
    /\ UNCHANGED <<intakeVars, startVars, genVars, commit_sha, enabled, pages_url,
                   notifyVars, commits, oplog>>

\* Mutant: a failed push is tried again.
B_PushRetried(p) ==
    /\ pc[p] = "B_push"
    /\ CanRun(p)
    /\ \E ok \in BOOLEAN :
        LET name == RepoOf(repo_url[p])
            res == PushToGithub(tempdir[p], remote[name], commits, ok)
        IN  /\ Called(p, "push_to_github", 0, ~res.raised)
            /\ tempdir' = [tempdir EXCEPT ![p] = res.ws]
            /\ remote' = [remote EXCEPT ![name] = res.remote]
            /\ commits' = res.store
            /\ IF res.raised
               THEN UNCHANGED <<commit_sha, pc>>
               ELSE /\ commit_sha' = [commit_sha EXCEPT ![p] = res.sha]
                    /\ pc' = [pc EXCEPT ![p] = "B_pages"]
    /\ UNCHANGED <<intakeVars, startVars, genVars, repo_url, enabled, pages_url,
                   notifyVars, outcome, oplog>>

\* Mutant: a failed push is swallowed and the branch carries on.
B_PushSwallowed(p) ==
    /\ pc[p] = "B_push"
    /\ CanRun(p)
    /\ \E ok \in BOOLEAN :
        LET name == RepoOf(repo_url[p])
            res == PushToGithub(tempdir[p], remote[name], commits, ok)
        IN  /\ Called(p, "push_to_github", 0, ~res.raised)
            /\ commit_sha' = [commit_sha EXCEPT ![p] = res.sha]
            /\ tempdir' = [tempdir EXCEPT ![p] = res.ws]
            /\ remote' = [remote EXCEPT ![name] = res.remote]
            /\ commits' = res.store
            /\ pc' = [pc EXCEPT ![p] = "B_pages"]
    /\ UNCHANGED <<intakeVars, startVars, genVars, repo_url, enabled, pages_url,
                   notifyVars, outcome, oplog>>

\* main.py 227-229: commit_sha = push_to_github(repo_url, token, tempdir)
B_Push(p) ==
    /\ pc[p] = "B_push"
    /\ CanRun(p)
    /\ \E ok \in BOOLEAN :
        LET name == RepoOf(repo_url[p])
            res == PushToGithub(tempdir[p], remote[name], commits, ok)
        IN  /\ Called(p, "push_to_github", 0, ~res.raised)
            /\ IF res.raised
               THEN /\ Ends(p, "caught_push")
                    /\ UNCHANGED <<commit_sha, remote, commits>>
               ELSE /\ commit_sha' = [commit_sha EXCEPT ![p] = res.sha]
                    /\ tempdir' = [tempdir EXCEPT ![p] = res.ws]
                    /\ remote' = [remote EXCEPT ![name] = res.remote]
                    /\ commits' = res.store
                    /\ pc' = [pc EXCEPT ![p] = "B_pages"]
                    /\ UNCHANGED outcome
    /\ UNCHANGED <<intakeVars, startVars, genVars, repo_url, enabled, pages_url,
                   notifyVars, oplog>>

\* main.py 230-235: enabled = enable_github_pages(...); pages_url is assigned
\* only when enabled.
B_Pages(p) ==
    /\ pc[p] = "B_pages"
    /\ CanRun(p)
    /\ \E status \in PagesStatuses(remote[task[p].task]) :
        /\ Called(p, "enable_github_pages", status, status # 0)
        /\ IF status = 0
           THEN /\ Ends(p, "caught_push")
                /\ UNCHANGED <<enabled, pages_url, remote>>
           ELSE /\ enabled' = [enabled EXCEPT ![p] = EnableGithubPages(status)]
                /\ pages_url' = [pages_url EXCEPT ![p] =
                       IF EnableGithubPages(status)
                       THEN PagesUrl(GITHUB_USERNAME, task[p].task) ELSE @]
                /\ remote' = [remote EXCEPT ![task[p].task].pages = @ \/ status = 201]
                /\ pc' = [pc EXCEPT ![p] = "B_payload"]
                /\ UNCHANGED <<outcome, tempdir>>
    /\ UNCHANGED <<intakeVars, startVars, genVars, repo_url, commit_sha, notifyVars,
                   commits, oplog>>

\* main.py 236-251: the payload (reading pages_url raises UnboundLocalError
\* when it was never assigned), then the call of notify_evaluator.
B_Payload(p) ==
    /\ pc[p] = "B_payload"
    /\ CanRun(p)
    /\ IF pages_url[p] = Unbound
       THEN /\ Ends(p, "caught_push")
            /\ UNCHANGED <<payload, calls>>
       ELSE /\ payload' = [payload EXCEPT ![p] =
                  BuildPayload(task[p], task[p].task, task[p].round,
                               repo_url[p], commit_sha[p], pages_url[p])]
            /\ Called(p, "notify_evaluator", 0, TRUE)
            /\ pc' = [pc EXCEPT ![p] = "notify"]
            /\ UNCHANGED <<outcome, tempdir>>
    /\ UNCHANGED <<intakeVars, startVars, genVars, pubVars, attempt, success, delays,
                   posts, remote, commits, oplog>>

\* main.py 252-268: the result is printed and the with block is left.
B_Finish(p) ==
    /\ pc[p] = "B_finish"
    /\ CanRun(p)
    /\ Ends(p, "completed")
    /\ UNCHANGED <<intakeVars, startVars, genVars, pubVars, notifyVars, calls, remote,
                   commits, oplog>>

\* ------------------------------------------------------- specification
Next ==
    \E p \in Procs :
        \/ ReceiveTask(p)
        \/ Start(p)
        \/ R_Fetch(p)
        \/ R_Generate(p)
        \/ R_Clone(p)
        \/ R_Push(p)
        \/ R_Pages(p)
        \/ R_Payload(p)
        \/ R_Finish(p)
        \/ NotifyAttempt(p)
        \/ B_Generate(p)
        \/ B_Create(p)
        \/ B_Push(p)
        \/ B_Pages(p)
        \/ B_Payload(p)
        \/ B_Finish(p)

Spec == Init /\ [][Next]_vars

\* ------------------------------------------------------ publish harness
\* push_to_github applied repeatedly to one folder, with edits of index.html
\* in between. The folder is one the pipeline hands to push_to_github: the
\* three files of a build, or a clone with index.html overwritten.
HarnessSlot == CHOOSE p \in Procs : \A q \in Procs : p <= q
HarnessRepo == CHOOSE t \in TaskIds : TRUE

HarnessDirs(r0) ==
    {[FreshDir EXCEPT !.files = BuiltTree(d, CHOOSE t \in Requests : TRUE)] :
        d \in LLMDocs}
    \cup {[w EXCEPT !.files = WriteFile(w.files, "index.html", d)] :
            w \in {c.ws : c \in {c \in {CloneRepo(r0.repo, r0.store, TRUE)} : ~c.raised}},
            d \in LLMDocs}

InitPublish ==
    \E r0 \in InitialRemotes :
        \E w \in HarnessDirs(r0) :
            /\ quota = 0
            /\ request = [p \in Procs |-> NoTask]
            /\ started = [p \in Procs |-> 0]
            /\ task = [p \in Procs |-> NoTask]
            /\ http = [p \in Procs |-> 0]
            /\ pc = [p \in Procs |-> "idle"]
            /\ flow = [p \in Procs |-> "none"]
            /\ existing_code = [p \in Procs |-> Unbound]
            /\ prompt = [p \in Procs |-> Unbound]
            /\ html = [p \in Procs |-> Unbound]
            /\ tempdir = [p \in Procs |-> IF p = HarnessSlot THEN w ELSE NoDir]
            /\ repo_url = [p \in Procs |-> Unbound]
            /\ commit_sha = [p \in Procs |-> NoSha]
            /\ enabled = [p \in Procs |-> FALSE]
            /\ pages_url = [p \in Procs |-> Unbound]
            /\ payload = [p \in Procs |-> NoPayload]
            /\ attempt = [p \in Procs |-> 0]
            /\ success = [p \in Procs |-> "unset"]
            /\ outcome = [p \in Procs |-> "running"]
            /\ calls = [p \in Procs |-> <<>>]
            /\ delays = [p \in Procs |-> <<>>]
            /\ posts = [p \in Procs |-> <<>>]
            /\ remote = [t \in TaskIds |-> r0.repo]
            /\ commits = r0.store
            /\ oplog = <<>>

harnessFrame == <<intakeVars, pc, startVars, genVars, pubVars, notifyVars, outcome, calls>>

\* One call of push_to_github on the harness folder; the folder is kept, so a
\* commit made before a failed push stays in it.
HarnessPublish ==
    /\ Len(oplog) < MaxOps
    /\ \E ok \in BOOLEAN :
        LET res == PushToGithub(tempdir[HarnessSlot], remote[HarnessRepo], commits, ok)
        IN  /\ tempdir' = [tempdir EXCEPT ![HarnessSlot] = res.ws]
            /\ remote' = [remote EXCEPT ![HarnessRepo] = res.remote]
            /\ commits' = res.store
            /\ oplog' = Append(oplog, [op |-> "publish", raised |-> res.raised,
                                       sha |-> res.sha, ncommits |-> Len(res.store)])
    /\ UNCHANGED harnessFrame

\* index.html is rewritten with a different content between two publishes.
HarnessEdit ==
    /\ Len(oplog) < MaxOps
    /\ \E d \in LLMDocs :
        /\ tempdir[HarnessSlot].files["index.html"] # d
        /\ tempdir' = [tempdir EXCEPT ![HarnessSlot].files =
                          WriteFile(@, "index.html", d)]
    /\ oplog' = Append(oplog, [op |-> "edit", raised |-> FALSE, sha |-> NoSha,
                               ncommits |-> Len(commits)])
    /\ UNCHANGED <<harnessFrame, remote, commits>>

NextPublish == HarnessPublish \/ HarnessEdit

SpecPublish == InitPublish /\ [][NextPublish]_vars

\* ================================================================ claims
CalledFn(p, f) == \E i \in DOMAIN calls[p] : calls[p][i].fn = f

\* Every call of b by p comes after a call of a by p.
Precedes(p, a, b) ==
    \A i \in DOMAIN calls[p] :
        calls[p][i].fn = b => \E j \in 1..(i - 1) : calls[p][j].fn = a

LastCall(p) == calls[p][Len(calls[p])]

RECURSIVE Sum(_)
Sum(s) == IF s = <<>> THEN 0 ELSE Head(s) + Sum(Tail(s))

\* C1: for a task of round 1, create_github_repo is called before
\* push_to_github, push_to_github before enable_github_pages, and
\* enable_github_pages before notify_evaluator; no POST reaches the evaluator
\* unless notify_evaluator was called after those three.
C1_BuildOrder ==
    \A p \in Procs :
        task[p].round = 1 =>
            /\ Precedes(p, "create_github_repo", "push_to_github")
            /\ Precedes(p, "push_to_github", "enable_github_pages")
            /\ Precedes(p, "enable_github_pages", "notify_evaluator")
            /\ (posts[p] # <<>> => CalledFn(p, "notify_evaluator"))

C1_Witness ==
    \E p \in Procs :
        /\ task[p].round = 1
        /\ posts[p] # <<>>
        /\ CalledFn(p, "create_github_repo")
        /\ CalledFn(p, "enable_github_pages")

\* C2: for a task of round >= 2, fetch_github_file is called before
\* call_aipipe, call_aipipe before push_to_github, and the fetched document
\* occurs verbatim in the prompt sent to the generator.
C2_RevisionOrder ==
    \A p \in Procs :
        task[p].round >= 2 =>
            /\ Precedes(p, "fetch_github_file", "call_aipipe")
            /\ Precedes(p, "call_aipipe", "push_to_github")
            /\ (prompt[p] # Unbound =>
                    /\ existing_code[p] # Unbound
                    /\ IsInfix(existing_code[p], prompt[p]))

\* C3: a task of round 1 takes the build branch and every task of round >= 2
\* takes the revision branch.
C3_RoundDispatch ==
    \A p \in Procs :
        flow[p] # "none" =>
            /\ (task[p].round = 1 => flow[p] = "build")
            /\ (task[p].round >= 2 => flow[p] = "revision")

\* C4: notify_evaluator makes at most 5 POSTs and none after a 200; it
\* returns True exactly on the first 200 (after that many attempts) and
\* returns False only after 5 attempts none of which was answered 200.
C4_NotifyAttempts ==
    \A p \in Procs :
        LET n == Len(posts[p])
        IN  /\ n <= 5
            /\ \A i \in 1..(n - 1) : posts[p][i].status # 200
            /\ (success[p] = "True" => n >= 1 /\ posts[p][n].status = 200)
            /\ (n >= 1 /\ posts[p][n].status = 200 => success[p] = "True")
            /\ (success[p] = "False" =>
                    n = 5 /\ \A i \in 1..n : posts[p][i].status # 200)
            /\ (success[p] = "unset" => n < 5)

C4_Witness ==
    \E p \in Procs :
        /\ success[p] = "True"
        /\ Len(posts[p]) = 3
        /\ posts[p][1].status = 500
        /\ posts[p][2].status = 0

\* The wait before each attempt: none before the first, then the sleeps in
\* the order notify_evaluator performed them.
DelaysBefore(p) == <<0>> \o delays[p]

\* C5: when every attempt fails, the delays waited before attempts 0..4 are
\* 0,1,2,4,8 and nothing is waited after the 5th failure: 15 units in all.
C5_BackoffDelays ==
    \A p \in Procs :
        success[p] = "False" =>
            /\ DelaysBefore(p) = <<0, 1, 2, 4, 8>>
            /\ Sum(delays[p]) = 15

PagesReturnedFalse(p) ==
    \E i \in DOMAIN calls[p] :
        /\ calls[p][i].fn = "enable_github_pages"
        /\ calls[p][i].ok
        /\ ~EnableGithubPages(calls[p][i].status)

\* C6: in both branches, when enable_github_pages returns False after a
\* successful push, the payload is still built and notify_evaluator called.
C6_PagesFailureNonFatal ==
    \A p \in Procs :
        (pc[p] = "done" /\ PagesReturnedFalse(p)) =>
            /\ payload[p] # NoPayload
            /\ CalledFn(p, "notify_evaluator")

Notified(p) == posts[p] # <<>> \/ CalledFn(p, "notify_evaluator")

\* What a branch has to have obtained before it may notify.
StepsDone(p) ==
    /\ html[p] # Unbound
    /\ commit_sha[p] \in 1..Len(commits)
    /\ \E i \in DOMAIN calls[p] : calls[p][i].fn = "push_to_github" /\ calls[p][i].ok
    /\ IF flow[p] = "revision"
       THEN /\ existing_code[p] # Unbound
            /\ \E i \in DOMAIN calls[p] : calls[p][i].fn = "clone_repo" /\ calls[p][i].ok
       ELSE repo_url[p] # Unbound

\* C7: notify_evaluator is called, and a POST sent, only after generation,
\* fetch, repository creation, clone and push of the branch succeeded and the
\* push returned a commit identifier; a task whose generation, fetch,
\* creation, clone or push raised never notifies.
C7_NoNotifyAfterFailure ==
    \A p \in Procs :
        /\ Notified(p) => StepsDone(p)
        /\ Notified(p) => payload[p].commit_sha = commit_sha[p]
        /\ \A i \in DOMAIN calls[p] :
              (/\ calls[p][i].fn \in {"call_aipipe", "fetch_github_file",
                                     "create_github_repo", "clone_repo",
                                     "push_to_github"}
               /\ ~calls[p][i].ok) => ~Notified(p)

C7_Witness ==
    \E p \in Procs :
        /\ pc[p] = "done"
        /\ calls[p] # <<>>
        /\ LastCall(p).fn = "push_to_github"
        /\ ~LastCall(p).ok
        /\ posts[p] = <<>>

\* C8: no error raised inside process_task_background leaves it unhandled.
C8_NoUnhandledError == \A p \in Procs : outcome[p] # "unhandled"

\* C9: two calls of push_to_github in a row on a folder no file of which
\* changed in between: the second makes no commit, and when both return, the
\* second returns the commit identifier the first returned.
C9_PublishIdempotent ==
    \A i \in 1..(Len(oplog) - 1) :
        (oplog[i].op = "publish" /\ oplog[i + 1].op = "publish") =>
            /\ oplog[i + 1].ncommits = oplog[i].ncommits
            /\ (~oplog[i].raised /\ ~oplog[i + 1].raised =>
                    oplog[i + 1].sha = oplog[i].sha)

C9_Witness ==
    /\ Len(oplog) >= 2
    /\ oplog[1].op = "publish" /\ ~oplog[1].raised
    /\ oplog[2].op = "publish" /\ ~oplog[2].raised
    /\ Len(commits) = 2
    /\ oplog[1].sha = 2

\* C10: create_github_repo returns the repository URL on 201 and on 422 and
\* raises on every other status; after a 422 the build branch goes on to
\* push_to_github.
C10_CreateIdempotent ==
    \A p \in Procs :
        \A i \in DOMAIN calls[p] :
            calls[p][i].fn = "create_github_repo" =>
                LET st == calls[p][i].status
                IN  /\ st \in {201, 422} =>
                          /\ calls[p][i].ok
                          /\ repo_url[p] = RepoUrl(GITHUB_USERNAME, task[p].task)
                    /\ st \notin {201, 422} =>
                          /\ ~calls[p][i].ok
                          /\ repo_url[p] = Unbound
                          /\ pc[p] = "done"
                    /\ st = 422 =>
                          pc[p] = "B_push" \/ CalledFn(p, "push_to_github")

C10_Witness ==
    \E p \in Procs :
        /\ \E i \in DOMAIN calls[p] :
              calls[p][i].fn = "create_github_repo" /\ calls[p][i].status = 422
        /\ \E i \in DOMAIN calls[p] :
              calls[p][i].fn = "push_to_github" /\ calls[p][i].ok

\* C11: enable_github_pages returns True exactly on the statuses 201, 204
\* and 409 and returns False, without raising, on every other status.
C11_PagesStatus ==
    \A p \in Procs :
        \A i \in DOMAIN calls[p] :
            (calls[p][i].fn = "enable_github_pages" /\ calls[p][i].status # 0) =>
                /\ calls[p][i].ok
                /\ enabled[p] <=> calls[p][i].status \in {201, 204, 409}

C11_Witness ==
    \E p \in Procs :
        /\ pc[p] \in {"R_payload", "B_payload"}
        /\ LastCall(p).fn = "enable_github_pages"
        /\ LastCall(p).status = 403
        /\ LastCall(p).ok
        /\ ~enabled[p]

\* C12: a request whose secret differs from STUDENT_SECRET is answered 401
\* and process_task_background never runs for it: no helper is called, no
\* prompt is sent, no directory is made and nothing is posted.
C12_RejectedNeverRuns ==
    \A p \in Procs :
        (request[p] # NoTask /\ request[p].secret # STUDENT_SECRET) =>
            /\ http[p] = 401
            /\ pc[p] = "rejected"
            /\ started[p] = 0
            /\ task[p] = NoTask
            /\ flow[p] = "none"
            /\ calls[p] = <<>>
            /\ prompt[p] = Unbound
            /\ ~tempdir[p].exists
            /\ posts[p] = <<>>

C12_Witness ==
    \E p \in Procs :
        /\ request[p] # NoTask
        /\ request[p].secret = "wrong"
        /\ http[p] = 401

\* C13: a request with the right secret is answered 200 with its task queued
\* before any step of the pipeline, and process_task_background is invoked
\* once for it, with the request's fields.
C13_AcceptedOnce ==
    \A p \in Procs :
        /\ started[p] <= 1
        /\ (started[p] = 1 => http[p] = 200)
        /\ ((request[p] # NoTask /\ request[p].secret = STUDENT_SECRET) =>
                http[p] = 200 /\ task[p] = request[p])
        /\ (http[p] = 200 => request[p].secret = STUDENT_SECRET)
        /\ (pc[p] = "queued" =>
                started[p] = 0 /\ flow[p] = "none" /\ calls[p] = <<>>)
        /\ ((calls[p] # <<>> \/ flow[p] # "none") => started[p] = 1)
        /\ (pc[p] = "done" => started[p] = 1)

C13_Witness ==
    \E p \in Procs :
        /\ http[p] = 200
        /\ pc[p] = "done"
        /\ outcome[p] = "completed"
        /\ started[p] = 1

\* C14: in notify_evaluator a POST answered by anything but 200 (another
\* 2xx, an error status, a transport error) is a failed attempt: another
\* attempt follows unless it was the 5th, after which False is returned;
\* True is returned only on a 200, and the call never raises: the pipeline
\* that called it ends by its normal path with True or False in hand.
C14_OnlyStatus200 ==
    \A p \in Procs :
        /\ \A i \in DOMAIN posts[p] :
              posts[p][i].status # 200 =>
                  IF i < 5
                  THEN i < Len(posts[p]) \/ (pc[p] = "notify" /\ success[p] = "unset")
                  ELSE success[p] = "False"
        /\ (success[p] = "True" =>
                \E i \in DOMAIN posts[p] : posts[p][i].status = 200)
        /\ ((pc[p] = "done" /\ CalledFn(p, "notify_evaluator")) =>
                outcome[p] = "completed" /\ success[p] \in {"True", "False"})

C14_Witness ==
    \E p \in Procs :
        /\ Len(posts[p]) = 3
        /\ posts[p][1].status = 204
        /\ posts[p][2].status = 0
        /\ posts[p][3].status = 200
        /\ pc[p] = "done"

\* C15: every POST of a task attempt carries the one payload built for it;
\* its email, task, round and nonce are those of the request received, and
\* its commit_sha is the identifier push_to_github returned, a commit whose
\* index.html is the document of this attempt.
C15_PayloadPassThrough ==
    \A p \in Procs :
        /\ \A i \in DOMAIN posts[p] : posts[p][i].payload = payload[p]
        /\ (posts[p] # <<>> => payload[p] # NoPayload)
        /\ (payload[p] # NoPayload =>
                /\ payload[p].email = request[p].email
                /\ payload[p].task = request[p].task
                /\ payload[p].round = request[p].round
                /\ payload[p].nonce = request[p].nonce
                /\ payload[p].commit_sha = commit_sha[p]
                /\ commit_sha[p] \in 1..Len(commits)
                /\ commits[commit_sha[p]].tree["index.html"] = html[p])

C15_Witness ==
    \E p \in Procs :
        /\ Len(posts[p]) >= 2
        /\ posts[p][1].payload.nonce = "n2"
        /\ posts[p][2].payload.round = 2
        /\ posts[p][2].payload.commit_sha = 2

\* C16: the index.html on the main branch of every repository starts with
\* the token <!DOCTYPE html>, whatever the generation provider answered.
C16_PublishedDoctype ==
    \A t \in TaskIds :
        (remote[t].main # NoSha /\ "index.html" \in DOMAIN commits[remote[t].main].tree) =>
            StartsWith(commits[remote[t].main].tree["index.html"], DOCTYPE)

\* Number of calls of helper f logged for p.
TimesCalled(p, f) == Cardinality({i \in DOMAIN calls[p] : calls[p][i].fn = f})

\* C17: within one task attempt fetch, generation, repository creation,
\* clone, push and pages activation are each called at most once (and so is
\* notify_evaluator); only the POST to the evaluator is repeated, at most 5
\* times.
C17_NoRetryAboveNotifier ==
    \A p \in Procs :
        /\ \A f \in {"fetch_github_file", "call_aipipe", "create_github_repo",
                     "clone_repo", "push_to_github", "enable_github_pages",
                     "notify_evaluator"} : TimesCalled(p, f) <= 1
        /\ Len(posts[p]) <= 5

C17_Witness ==
    \E p \in Procs :
        /\ Len(posts[p]) = 5
        /\ success[p] = "False"
        /\ TimesCalled(p, "push_to_github") = 1
        /\ TimesCalled(p, "call_aipipe") = 1

\* Positions inside the with tempfile.TemporaryDirectory() block.
InWithBlock == {"R_push", "R_pages", "R_payload", "R_finish", "B_create",
                "B_push", "B_pages", "B_payload", "B_finish", "notify"}

\* C18: a task's temporary directory exists only while its pipeline is
\* inside the with block: it is new when the block is entered (the build's
\* holds the three files and no repository) and it is gone once
\* process_task_background has ended, by whichever path.
C18_WorkspaceRemoved ==
    \A p \in Procs :
        /\ (pc[p] = "done" => ~tempdir[p].exists)
        /\ (tempdir[p].exists => pc[p] \in InWithBlock)
        /\ (pc[p] = "B_create" =>
                /\ tempdir[p].exists
                /\ ~tempdir[p].git
                /\ DOMAIN tempdir[p].files = {"index.html", "README.md", "LICENSE"})

C18_Witness ==
    \E p \in Procs :
        /\ pc[p] = "done"
        /\ outcome[p] = "caught_push"
        /\ LastCall(p).fn = "enable_github_pages"
        /\ ~tempdir[p].exists

\* The tree on the main branch of repository r in commit store st.
MainTree(r, st) == IF r.main = NoSha THEN EmptyTree ELSE st[r.main].tree

\* C19: the step in which the revision branch's push succeeds leaves every
\* file of the repository's main branch other than index.html as it was:
\* the same files, with the same content.
C19_RevisionFrame ==
    [][\A p \in Procs :
          (pc[p] = "R_push" /\ pc'[p] = "R_pages") =>
              LET old == MainTree(remote[task[p].task], commits)
                  new == MainTree(remote'[task[p].task], commits')
              IN  /\ DOMAIN new \ {"index.html"} = DOMAIN old \ {"index.html"}
                  /\ \A n \in DOMAIN old \ {"index.html"} : new[n] = old[n]
                  /\ new["index.html"] = html[p]]_vars

C19_Witness ==
    \E p \in Procs :
        /\ flow[p] = "revision"
        /\ commit_sha[p] = 2
        /\ remote[task[p].task].main = 2
        /\ commits[2].parent = 1
        /\ commits[2].tree["index.html"] = DocB
        /\ commits[1].tree["index.html"] = DocA
        /\ commits[2].tree["README.md"] = commits[1].tree["README.md"]
        /\ commits[2].tree["LICENSE"] = commits[1].tree["LICENSE"]

\* ---------------------------------------------- two requests, one task id
\* Two requests for the same task id are sent to the service; their
\* pipelines interleave at the awaits. To keep the interleavings the subject,
\* both carry the right secret and the same nonce, and the evaluator accepts
\* the first notification.
InitRace == \E r0 \in InitialRemotes : InitWith(NumProcs, r0)

RaceReceive(p) ==
    /\ ReceiveTask(p)
    /\ SecretMatches(request'[p].secret)
    /\ request'[p].nonce = CHOOSE n \in Nonces : TRUE

RaceNotify(p) ==
    /\ NotifyAttempt(p)
    /\ NotifySuccess(posts'[p][Len(posts'[p])].status)

NextRace ==
    \E p \in Procs :
        \/ RaceReceive(p)
        \/ Start(p)
        \/ R_Fetch(p)
        \/ R_Generate(p)
        \/ R_Clone(p)
        \/ R_Push(p)
        \/ R_Pages(p)
        \/ R_Payload(p)
        \/ R_Finish(p)
        \/ RaceNotify(p)
        \/ B_Generate(p)
        \/ B_Create(p)
        \/ B_Push(p)
        \/ B_Pages(p)
        \/ B_Payload(p)
        \/ B_Finish(p)

SpecRace == InitRace /\ [][NextRace]_vars

\* Slot p is about to call push_to_github.
AtPush(p) == pc[p] \in {"R_push", "B_push"}
\* The step in which push_to_github returns to slot p.
PushReturns(p) == AtPush(p) /\ pc'[p] \in {"R_pages", "B_pages"}

\* C20: last force-push wins. The main branch of a repository moves only in
\* a step in which a push to it returns, and then to the head commit of the
\* pushing pipeline, whose tree is that pipeline's working tree, whatever
\* main held before; and a push to an existing repository over a working
\* transport is never refused, whatever earlier pushes left on main.
C20_LastPushWins ==
    [][/\ \A t \in TaskIds :
            remote'[t].main # remote[t].main =>
                \E p \in Procs : PushReturns(p) /\ task[p].task = t
       /\ \A p \in Procs :
            PushReturns(p) =>
                /\ remote'[task[p].task].main = commit_sha'[p]
                /\ commit_sha'[p] = tempdir'[p].head
                /\ commits'[commit_sha'[p]].tree = tempdir'[p].files
                /\ tempdir'[p].files = tempdir[p].files
       /\ \A p \in Procs :
            (AtPush(p) /\ remote[task[p].task].exists) =>
                ~PushToGithub(tempdir[p], remote[task[p].task], commits, TRUE).raised
      ]_vars

\* Slot q published between slot p's fetch and slot p's clone, and slot p's
\* push, the later one, is what main holds.
C20_Witness ==
    \E p, q \in Procs :
        /\ p # q
        /\ flow[p] = "revision"
        /\ flow[q] # "none"
        /\ task[p].task = task[q].task
        /\ commit_sha[p] # NoSha
        /\ commit_sha[q] # NoSha
        /\ commit_sha[p] # commit_sha[q]
        /\ commits[commit_sha[p]].parent = commit_sha[q]
        /\ existing_code[p] # commits[commit_sha[q]].tree["index.html"]
        /\ commits[commit_sha[p]].tree # commits[commit_sha[q]].tree
        /\ remote[task[p].task].main = commit_sha[p]

\* ------------------------------------------------------------ termination
\* One step of the pipeline of slot p: the event loop runs every coroutine
\* that is ready, and every external call returns or fails.
PipelineStep(p) ==
    \/ Start(p)
    \/ R_Fetch(p)
    \/ R_Generate(p)
    \/ R_Clone(p)
    \/ R_Push(p)
    \/ R_Pages(p)
    \/ R_Payload(p)
    \/ R_Finish(p)
    \/ NotifyAttempt(p)
    \/ B_Generate(p)
    \/ B_Create(p)
    \/ B_Push(p)
    \/ B_Pages(p)
    \/ B_Payload(p)
    \/ B_Finish(p)

Fairness == \A p \in Procs : WF_vars(PipelineStep(p))

SpecLive == Init /\ [][Next]_vars /\ Fairness

\* C21: every task handed to the background pipeline reaches the end of
\* process_task_background, by completion or by its first fatal error, and
\* on the way the notifier makes at most MaxAttempts attempts.
C21_Terminates ==
    /\ \A p \in Procs : (pc[p] = "queued") ~> (pc[p] = "done")
    /\ [](\A p \in Procs :
            /\ Len(posts[p]) <= MaxAttempts
            /\ attempt[p] <= MaxAttempts
            /\ (pc[p] = "done" => outcome[p] # "running"))

\* A pipeline that ended after the notifier used up all its attempts.
C21_Witness ==
    \E p \in Procs :
        /\ pc[p] = "done"
        /\ outcome[p] = "completed"
        /\ success[p] = "False"
        /\ Len(posts[p]) = MaxAttempts

====
